---- MODULE Spec2Model ----
(***************************************************************************)
(* Parameter/response tree codec (helpers/compute_helpers.py,              *)
(* helpers/compute_rhino3dm_helpers.py, helpers/context_gen_helpers.py)    *)
(* and the location-resolution pipeline (helpers/location_helpers.py).     *)
(*                                                                         *)
(* Text is a sequence of one-character strings.  Two tokens stand for a    *)
(* whole JSON object each: GeomTok, the JSON text of an encoded geometry   *)
(* object, and ObjTok, the JSON text of an object the geometry library     *)
(* does not recognise.                                                     *)
(*                                                                         *)
(* A native Python value is a record [kind, s, n, e]:                      *)
(*   "str"   text s                                                        *)
(*   "bool"  n = 1 for True, 0 for False                                   *)
(*   "int"   the integer n                                                 *)
(*   "float" s = <<>>: the finite real n / 10^e, normalised (e = 0 or      *)
(*           n % 10 # 0); s = <<"inf">>, <<"-inf">>, <<"nan">>: the        *)
(*           non-finite reals                                              *)
(*   "none"  None                                                          *)
(*   "geometry" an object returned by rhino3dm.CommonObject.Decode         *)
(*   "bytes" the bytes written as the text s                               *)
(*   "missing" stands for a leaf that has no 'data' key                    *)
(***************************************************************************)
EXTENDS Integers, Sequences, FiniteSets, TLC

\* ------------------------------------------------------------- bounds
MaxLen == 3
MaxInt == 11
MaxFrac == 5
MaxLeaves == 2
MaxEntries == 2
MaxParams == 2
MaxLocLen == 4
MaxWords == 2
MaxCandidates == 2
MaxObjects == 2

\* ------------------------------------------------------------- text
Q == "\""
GeomTok == "{geometry}"
ObjTok == "{}"
Digits == <<"0", "1", "2", "3", "4", "5", "6", "7", "8", "9">>

IsDigit(c) == \E i \in 1..10 : Digits[i] = c
DigitVal(c) == (CHOOSE i \in 1..10 : Digits[i] = c) - 1
AllDigits(s) == \A i \in 1..Len(s) : IsDigit(s[i])

RECURSIVE Pow10(_)
Pow10(k) == IF k <= 0 THEN 1 ELSE 10 * Pow10(k - 1)

RECURSIVE DigitsVal(_)
DigitsVal(s) == IF s = <<>> THEN 0
                ELSE 10 * DigitsVal(SubSeq(s, 1, Len(s) - 1)) + DigitVal(s[Len(s)])

RECURSIVE NatText(_)
NatText(n) == IF n < 10 THEN <<Digits[n + 1]>>
              ELSE NatText(n \div 10) \o <<Digits[(n % 10) + 1]>>

Abs(n) == IF n < 0 THEN -n ELSE n
IntText(n) == IF n < 0 THEN <<"-">> \o NatText(-n) ELSE NatText(n)

RECURSIVE PadLeft(_, _)
PadLeft(s, w) == IF Len(s) >= w THEN s ELSE PadLeft(<<"0">> \o s, w)

\* the first position of c in s, 0 when absent
IndexOf(s, c) == IF \E i \in 1..Len(s) : s[i] = c
                 THEN CHOOSE i \in 1..Len(s) : s[i] = c /\ \A j \in 1..(i - 1) : s[j] # c
                 ELSE 0
HasChar(s, c) == \E i \in 1..Len(s) : s[i] = c

IsSpace(c) == c = " "
RECURSIVE LStrip(_)
LStrip(s) == IF s # <<>> /\ IsSpace(s[1]) THEN LStrip(Tail(s)) ELSE s
RECURSIVE RStrip(_)
RStrip(s) == IF s # <<>> /\ IsSpace(s[Len(s)]) THEN RStrip(SubSeq(s, 1, Len(s) - 1)) ELSE s
Strip(s) == RStrip(LStrip(s))

Upper == <<"A", "B", "C", "D", "E", "F", "G", "H", "I", "J", "K", "L", "M", "N", "O", "P", "Q", "R", "S", "T", "U", "V", "W", "X", "Y", "Z">>
Lower == <<"a", "b", "c", "d", "e", "f", "g", "h", "i", "j", "k", "l", "m", "n", "o", "p", "q", "r", "s", "t", "u", "v", "w", "x", "y", "z">>
LowerChar(c) == IF \E i \in 1..Len(Upper) : Upper[i] = c
                THEN Lower[CHOOSE i \in 1..Len(Upper) : Upper[i] = c]
                ELSE c
ToLower(s) == [i \in 1..Len(s) |-> LowerChar(s[i])]

\* all texts over the alphabet A of length at most n
RECURSIVE TextsUpTo(_, _)
TextsUpTo(A, n) == IF n = 0 THEN {<<>>}
                   ELSE LET P == TextsUpTo(A, n - 1)
                        IN  P \cup {Append(t, c) : t \in {u \in P : Len(u) = n - 1}, c \in A}

\* sub in s
Contains(s, sub) ==
    \E i \in 1..(Len(s) - Len(sub) + 1) : SubSeq(s, i, i + Len(sub) - 1) = sub

\* s.replace(old, new): every occurrence, left to right, without overlap
RECURSIVE Replace(_, _, _)
Replace(s, old, new) ==
    IF Len(s) < Len(old) THEN s
    ELSE IF SubSeq(s, 1, Len(old)) = old
    THEN new \o Replace(SubSeq(s, Len(old) + 1, Len(s)), old, new)
    ELSE <<s[1]>> \o Replace(Tail(s), old, new)

\* s.split(c)
RECURSIVE Split(_, _)
Split(s, c) ==
    IF ~HasChar(s, c) THEN <<s>>
    ELSE <<SubSeq(s, 1, IndexOf(s, c) - 1)>> \o Split(SubSeq(s, IndexOf(s, c) + 1, Len(s)), c)

\* the concatenations of at most n of the fragments F
RECURSIVE ConcatsUpTo(_, _)
ConcatsUpTo(F, n) ==
    IF n = 0 THEN {<<>>}
    ELSE LET P == ConcatsUpTo(F, n - 1) IN P \cup {t \o f : t \in P, f \in F}

\* ------------------------------------------------------------- values
V(k, s, n, e) == [kind |-> k, s |-> s, n |-> n, e |-> e]
Str(s) == V("str", s, 0, 0)
Bool(b) == V("bool", <<>>, IF b THEN 1 ELSE 0, 0)
IntV(n) == V("int", <<>>, n, 0)
PyNone == V("none", <<>>, 0, 0)
Geometry == V("geometry", <<>>, 0, 0)
Bytes(s) == V("bytes", s, 0, 0)
Missing == V("missing", <<>>, 0, 0)
Inf == V("float", <<"inf">>, 0, 0)
NegInf == V("float", <<"-inf">>, 0, 0)
NaN == V("float", <<"nan">>, 0, 0)

RECURSIVE NormE(_, _)
NormE(m, e) == IF e > 0 /\ m % 10 = 0 THEN NormE(m \div 10, e - 1) ELSE e
RECURSIVE NormM(_, _)
NormM(m, e) == IF e > 0 /\ m % 10 = 0 THEN NormM(m \div 10, e - 1) ELSE m
\* the finite real m * 10^(-e), for any integers m and e
Real(m, e) == IF e < 0 THEN V("float", <<>>, m * Pow10(-e), 0)
              ELSE V("float", <<>>, NormM(m, e), NormE(m, e))

IsFinite(v) == v.kind = "float" /\ v.s = <<>>
\* Python's == between numbers: an int and a float are equal when they
\* denote the same number; nan equals nothing
NumEq(a, b) == /\ a.kind \in {"int", "float", "bool"}
               /\ b.kind \in {"int", "float", "bool"}
               /\ a # NaN /\ b # NaN
               /\ a.s = b.s /\ a.n = b.n /\ a.e = b.e
\* -k <= v <= k for a float v, as Python compares (false for nan)
InRange(v, k) == /\ IsFinite(v)
                 /\ -k * Pow10(v.e) <= v.n
                 /\ v.n <= k * Pow10(v.e)

Ok(x) == [status |-> "ok", exc |-> "none", value |-> x]
Raised(x) == [status |-> "raised", exc |-> x, value |-> PyNone]

\* ------------------------------------------------------------- number parsing
\* the text after an optional leading sign
Unsigned(t) == IF t # <<>> /\ t[1] \in {"+", "-"} THEN Tail(t) ELSE t
SignOf(t) == IF t # <<>> /\ t[1] = "-" THEN -1 ELSE 1

\* int(text): surrounding blanks stripped, an optional sign, one or more
\* decimal digits; ValueError otherwise
ParseInt(s) ==
    LET t == Strip(s)
        body == Unsigned(t)
    IN  IF body # <<>> /\ AllDigits(body)
        THEN Ok(IntV(SignOf(t) * DigitsVal(body)))
        ELSE Raised("ValueError")

\* the position of the exponent marker of a float literal, 0 when absent
ExpPos(body) == IF HasChar(body, "e") THEN IndexOf(body, "e") ELSE IndexOf(body, "E")

\* float(text): surrounding blanks stripped, an optional sign, then inf,
\* infinity or nan in any case, or digits with at most one decimal point and
\* at least one digit, optionally followed by an exponent; ValueError otherwise
ParseMantissa(sign, mant, dot, exp, expOk) ==
    LET ip == IF dot = 0 THEN mant ELSE SubSeq(mant, 1, dot - 1)
        fp == IF dot = 0 THEN <<>> ELSE SubSeq(mant, dot + 1, Len(mant))
    IN  IF AllDigits(ip) /\ AllDigits(fp) /\ Len(ip) + Len(fp) >= 1 /\ expOk
        THEN Ok(Real(sign * DigitsVal(ip \o fp), Len(fp) - exp))
        ELSE Raised("ValueError")
ParseExponent(sign, mant, exps, expd, ep) ==
    ParseMantissa(sign, mant, IndexOf(mant, "."),
                  IF ep = 0 THEN 0 ELSE SignOf(exps) * DigitsVal(expd),
                  ep = 0 \/ (expd # <<>> /\ AllDigits(expd)))
ParseFinite(sign, body, ep) ==
    ParseExponent(sign,
                  IF ep = 0 THEN body ELSE SubSeq(body, 1, ep - 1),
                  IF ep = 0 THEN <<>> ELSE SubSeq(body, ep + 1, Len(body)),
                  IF ep = 0 THEN <<>> ELSE Unsigned(SubSeq(body, ep + 1, Len(body))),
                  ep)
ParseUnsigned(sign, body, low) ==
    IF low \in {<<"i", "n", "f">>, <<"i", "n", "f", "i", "n", "i", "t", "y">>}
    THEN Ok(IF sign < 0 THEN NegInf ELSE Inf)
    ELSE IF low = <<"n", "a", "n">>
    THEN Ok(NaN)
    ELSE ParseFinite(sign, body, ExpPos(body))
ParseStripped(t) == ParseUnsigned(SignOf(t), Unsigned(t), ToLower(Unsigned(t)))
ParseFloat(s) == ParseStripped(Strip(s))

\* ------------------------------------------------------------- number printing
RECURSIVE NumDigits(_)
NumDigits(n) == IF n < 10 THEN 1 ELSE 1 + NumDigits(n \div 10)

\* repr(float) of the finite real m / 10^e (normalised): positional notation
\* with at least one fraction digit, or, below 1e-4, scientific notation
\* with a two-digit exponent
FloatRepr(m, e) ==
    LET a == Abs(m)
        sgn == IF m < 0 THEN <<"-">> ELSE <<>>
        ds == NatText(a)
        x == NumDigits(a) - 1 - e
    IN  IF e = 0 THEN sgn \o ds \o <<".", "0">>
        ELSE IF x < -4
        THEN sgn \o <<ds[1]>>
                 \o (IF Len(ds) > 1 THEN <<".">> \o Tail(ds) ELSE <<>>)
                 \o <<"e", "-">> \o PadLeft(NatText(-x), 2)
        ELSE sgn \o NatText(a \div Pow10(e)) \o <<".">> \o PadLeft(NatText(a % Pow10(e)), e)

\* str(value) of a value that is neither text nor a number
PyStr(v) == IF v.kind = "none" THEN <<"N", "o", "n", "e">> ELSE <<"?">>

\* ------------------------------------------------------------- format_parameter
\* isinstance(value, cls): a bool is an instance of int as well
IsInstance(value, cls) ==
    \/ value.kind = cls
    \/ cls = "int" /\ value.kind = "bool"

\* int(value) of a float: truncation towards zero; OverflowError for an
\* infinity, ValueError for nan
IntOfFloat(value) ==
    IF value \in {Inf, NegInf} THEN Raised("OverflowError")
    ELSE IF value = NaN THEN Raised("ValueError")
    ELSE Ok(IntV((IF value.n < 0 THEN -1 ELSE 1) * (Abs(value.n) \div Pow10(value.e))))

Leaf(net_type, data) == [type |-> net_type, data |-> data]
DataTreeEntry(param_name, tree) == [ParamName |-> param_name, InnerTree |-> tree]

\* the .NET type and the data of a value, or the exception the inference raises
InferType(value) ==
    IF IsInstance(value, "str") THEN Ok(Leaf("System.String", value))
    ELSE IF IsInstance(value, "bool") THEN Ok(Leaf("System.Boolean", value))
    ELSE IF IsInstance(value, "int") THEN Ok(Leaf("System.Int32", value))
    ELSE IF IsInstance(value, "float")
    THEN LET i == IntOfFloat(value)
         IN  IF i.status = "raised" THEN i
             ELSE IF NumEq(value, i.value) THEN Ok(Leaf("System.Int32", i.value))
             ELSE Ok(Leaf("System.Double", value))
    ELSE Ok(Leaf("System.String", Str(PyStr(value))))

format_parameter(param_name, value) ==
    LET leaf == InferType(value)
    IN  IF leaf.status = "raised" THEN leaf
        ELSE Ok(DataTreeEntry(param_name, [p \in {"{0}"} |-> <<leaf.value>>]))

\* format_parameters on the items of a dict, in insertion order: the first
\* exception ends the comprehension
RECURSIVE format_parameters(_)
format_parameters(items) ==
    IF items = <<>> THEN Ok(<<>>)
    ELSE LET rest == format_parameters(SubSeq(items, 1, Len(items) - 1))
             last == format_parameter(items[Len(items)].name, items[Len(items)].value)
         IN  IF rest.status = "raised" THEN rest
             ELSE IF last.status = "raised" THEN last
             ELSE Ok(Append(rest.value, last.value))

\* ------------------------------------------------------------- decode_gh_output
\* the data handed on as it came
StripQuotes_NoStrip(data) == data

\* lines 20-22: one pair of enclosing double quotes is removed
StripQuotes(data) ==
    IF /\ IsInstance(data, "str")
       /\ data.s # <<>>
       /\ data.s[1] = Q
       /\ data.s[Len(data.s)] = Q
    THEN Str(SubSeq(data.s, 2, Len(data.s) - 1))
    ELSE data

\* The JSON number grammar, without exponents: an optional minus, an integer
\* part without a leading zero, an optional fraction of at least one digit
IsJsonNumber(t) ==
    LET body == IF t # <<>> /\ t[1] = "-" THEN Tail(t) ELSE t
        dot == IndexOf(body, ".")
        ip == IF dot = 0 THEN body ELSE SubSeq(body, 1, dot - 1)
        fp == IF dot = 0 THEN <<>> ELSE SubSeq(body, dot + 1, Len(body))
    IN  /\ ip # <<>> /\ AllDigits(ip)
        /\ (Len(ip) > 1 => ip[1] # "0")
        /\ (dot # 0 => fp # <<>> /\ AllDigits(fp))
IsJsonString(t) ==
    /\ Len(t) >= 2 /\ t[1] = Q /\ t[Len(t)] = Q
    /\ \A i \in 2..(Len(t) - 1) : t[i] \notin {Q, "\\"}

Dict(tok) == V("dict", <<tok>>, 0, 0)
JsonScalar == V("scalar", <<>>, 0, 0)

\* json.loads(data): TypeError for data that is not text, JSONDecodeError
\* for text that is not JSON
JsonLoads(data) ==
    IF ~IsInstance(data, "str") THEN Raised("TypeError")
    ELSE IF Strip(data.s) \in {<<GeomTok>>, <<ObjTok>>} THEN Ok(Dict(Strip(data.s)[1]))
    ELSE IF IsJsonNumber(Strip(data.s)) \/ IsJsonString(Strip(data.s)) THEN Ok(JsonScalar)
    ELSE Raised("JSONDecodeError")

\* rhino3dm.CommonObject.Decode: an object for an encoded geometry, None for
\* another dict, TypeError for anything that is not a dict
CommonObjectDecode(obj) ==
    IF obj.kind # "dict" THEN Raised("TypeError")
    ELSE IF obj.s = <<GeomTok>> THEN Ok(Geometry)
    ELSE Ok(PyNone)

\* the exception classes the two handlers of the loop body name
GeometryHandler == "Exception"
NumberHandler_ValueError == "ValueError"
NumberHandler == "Exception"
Catches(handler, exc) ==
    \/ handler = "Exception"
    \/ handler = exc
    \/ handler = "ValueError" /\ exc = "JSONDecodeError"
    \/ handler = "RequestException"
           /\ exc \in {"Timeout", "HTTPError", "ConnectionError", "JSONDecodeError"}

GeometryStep(data) ==
    LET j == JsonLoads(data)
    IN  IF j.status = "raised" THEN j ELSE CommonObjectDecode(j.value)

\* '.' in data raises TypeError for data that is not iterable
NumberStep(data) ==
    IF ~IsInstance(data, "str") THEN Raised("TypeError")
    ELSE IF HasChar(data.s, ".") THEN ParseFloat(data.s)
    ELSE ParseInt(data.s)

\* one iteration of the loop: the value appended, or the exception that
\* leaves the loop
DecodeItem(item) ==
    IF item.data = Missing THEN Raised("KeyError")
    ELSE LET data == StripQuotes(item.data)
             g == GeometryStep(data)
             n == NumberStep(data)
         IN  IF g.status = "raised" /\ ~Catches(GeometryHandler, g.exc) THEN g
             ELSE IF g.status = "ok" /\ g.value # PyNone THEN g
             ELSE IF n.status = "raised" /\ ~Catches(NumberHandler, n.exc) THEN n
             ELSE IF n.status = "ok" THEN n
             ELSE Ok(data)

RECURSIVE DecodeBranch(_)
DecodeBranch(branch) ==
    IF branch = <<>> THEN Ok(<<>>)
    ELSE LET results == DecodeBranch(SubSeq(branch, 1, Len(branch) - 1))
             item == DecodeItem(branch[Len(branch)])
         IN  IF results.status = "raised" THEN results
             ELSE IF item.status = "raised" THEN item
             ELSE Ok(Append(results.value, item.value))

\* the entry of the response whose branch is decoded
SelectedEntry == 1

decode_gh_output(output, tree_path) ==
    IF ~output.has_values THEN Raised("KeyError")
    ELSE IF Len(output.values) < SelectedEntry THEN Raised("IndexError")
    ELSE IF tree_path \notin DOMAIN output.values[SelectedEntry].InnerTree THEN Raised("KeyError")
    ELSE DecodeBranch(output.values[SelectedEntry].InnerTree[tree_path])

\* ------------------------------------------------------------- parse_result
OutputKey == "RH_OUT:context_model_3dm"
OutputPath == "{0;0;0}"

\* the loop over result['values']: the data of the first leaf of the first
\* entry named OutputKey that has a non-empty branch at OutputPath, None when
\* there is none
RECURSIVE FindResult3dm(_, _)
FindResult3dm(values, i) ==
    IF i > Len(values) THEN Ok(PyNone)
    ELSE IF /\ values[i].ParamName = OutputKey
            /\ OutputPath \in DOMAIN values[i].InnerTree
            /\ Len(values[i].InnerTree[OutputPath]) > 0
    THEN IF values[i].InnerTree[OutputPath][1].data = Missing
         THEN Raised("KeyError")
         ELSE Ok(values[i].InnerTree[OutputPath][1].data)
    ELSE FindResult3dm(values, i + 1)

IsB64Char(c) == c \notin {Q, ".", "-", " ", ","}
\* base64.b64decode(text): characters outside the alphabet are dropped; the
\* rest must come in groups of four.  The bytes are written as their text.
B64Decode(t) ==
    LET kept == SelectSeq(t, IsB64Char)
    IN  IF Len(kept) % 4 = 0 THEN Ok(Bytes(kept)) ELSE Raised("binascii.Error")

\* the body of the try block
ParseResultBody(result) ==
    IF ~result.has_values THEN Raised("KeyError")
    ELSE LET found == FindResult3dm(result.values, 1)
         IN  IF found.status = "raised" THEN found
             ELSE IF found.value = PyNone THEN Raised("ValueError")
             ELSE IF IsInstance(found.value, "str") THEN B64Decode(found.value.s)
             ELSE found

\* every exception of the body is raised again as ValueError
parse_result(result) ==
    LET r == ParseResultBody(result)
    IN  IF r.status = "raised" THEN Raised("ValueError") ELSE r

\* ------------------------------------------------------------- the compute service
\* The text that carries an encoded value in a response leaf: text in one
\* pair of double quotes, a number or a boolean as its JSON text
WireText(v) ==
    IF v.kind = "str" THEN <<Q>> \o v.s \o <<Q>>
    ELSE IF v.kind = "bool"
    THEN (IF v.n = 1 THEN <<"t", "r", "u", "e">> ELSE <<"f", "a", "l", "s", "e">>)
    ELSE IF v.kind = "int" THEN IntText(v.n)
    ELSE FloatRepr(v.n, v.e)

DefaultTreePath == "{0;0}"
Response(values) == [has_values |-> TRUE, values |-> values]
NoValues == [has_values |-> FALSE, values |-> <<>>]

\* the response that carries the leaf of an encoded parameter back
EchoResponse(entry) ==
    LET leaf == entry.InnerTree["{0}"][1]
    IN  Response(<<DataTreeEntry("RH_OUT:result",
                     [p \in {DefaultTreePath} |-> <<Leaf(leaf.type, Str(WireText(leaf.data)))>>])>>)

\* ------------------------------------------------------------- inputs
Alphabet == {Q, "1", "0", ".", "h", GeomTok}
Hello == <<"h", "e", "l", "l", "o">>
Quoted10 == <<Q, "1", "0", Q>>
Texts == TextsUpTo(Alphabet, MaxLen) \cup {Hello, Quoted10, <<ObjTok>>, <<"1", "0">>}

ParamNames == {"RH_IN:a", "RH_IN:b", "RH_IN:c"}
Reals == {Real(m, e) : m \in (-MaxInt)..MaxInt, e \in 0..MaxFrac} \cup {Inf, NegInf, NaN}
ParamValues ==
    {Str(t) : t \in Texts} \cup {Bool(TRUE), Bool(FALSE)}
        \cup {IntV(n) : n \in (-MaxInt)..MaxInt} \cup Reals \cup {PyNone}

SampleValues == {Str(Hello), Bool(TRUE), IntV(10), Real(5, 0), Real(55, 1), Inf}
RECURSIVE DictsUpTo(_)
DictsUpTo(n) ==
    IF n = 0 THEN {<<>>}
    ELSE LET P == DictsUpTo(n - 1)
         IN  P \cup {Append(d, [name |-> k, value |-> v]) :
                       d \in {x \in P : Len(x) = n - 1},
                       k \in ParamNames, v \in SampleValues}
\* the items of a dict have pairwise different keys
ParamDicts == {d \in DictsUpTo(MaxParams) :
                 \A i, j \in 1..Len(d) : i # j => d[i].name # d[j].name}

Paths == {DefaultTreePath, OutputPath}
OutLeaf(data) == Leaf("", data)

\* responses of one entry with one leaf at the default path
LeafData == {Str(t) : t \in Texts} \cup {IntV(10), Real(15, 1), PyNone, Missing}
LeafResponses ==
    {Response(<<DataTreeEntry("RH_OUT:result", [p \in {DefaultTreePath} |-> <<OutLeaf(d)>>])>>) :
       d \in LeafData}

\* responses of one entry with a branch of several leaves
SampleData == {Str(<<GeomTok>>), Str(Quoted10), Str(<<"1", ".", "5">>), Str(<<"h">>),
               Str(<<Q>>), IntV(10), Missing}
RECURSIVE BranchesUpTo(_)
BranchesUpTo(n) ==
    IF n = 0 THEN {<<>>}
    ELSE LET P == BranchesUpTo(n - 1)
         IN  P \cup {Append(b, OutLeaf(d)) : b \in {x \in P : Len(x) = n - 1}, d \in SampleData}
BranchResponses ==
    {Response(<<DataTreeEntry("RH_OUT:result", [p \in {DefaultTreePath} |-> b])>>) :
       b \in BranchesUpTo(MaxLeaves)}

\* responses of several entries, each with at most one branch of at most
\* one leaf, which holds a base64 payload or text that is none
Payload == <<"h", "1", "0", "h">>
PayloadTrees ==
    {<<>>} \cup {[p \in {q} |-> b] : q \in Paths,
                 b \in {<<>>, <<OutLeaf(Str(Payload))>>, <<OutLeaf(Str(<<"h">>))>>, <<OutLeaf(PyNone)>>}}
PayloadEntries == {DataTreeEntry(k, tr) : k \in {OutputKey, "RH_OUT:other"}, tr \in PayloadTrees}
RECURSIVE EntriesUpTo(_)
EntriesUpTo(n) ==
    IF n = 0 THEN {<<>>}
    ELSE LET P == EntriesUpTo(n - 1)
         IN  P \cup {Append(es, en) : es \in {x \in P : Len(x) = n - 1}, en \in PayloadEntries}
PayloadResponses == {Response(es) : es \in EntriesUpTo(MaxEntries)} \cup {NoValues}

\* ------------------------------------------------------------- location_helpers
\* parse_direct_coordinates: (is_coordinates, lat, lon)
\* -90 <= possible_lat <= 90 and -180 <= possible_lon <= 180
LatLonValid_Swapped(possible_lat, possible_lon) ==
    InRange(possible_lat, 180) /\ InRange(possible_lon, 90)
LatLonValid(possible_lat, possible_lon) ==
    InRange(possible_lat, 90) /\ InRange(possible_lon, 180)

NotCoordinates == [is_coordinates |-> FALSE, lat |-> PyNone, lon |-> PyNone]
parse_direct_coordinates(location) ==
    IF ~HasChar(location, ",") THEN NotCoordinates
    ELSE LET split == Split(location, ",")
             parts == [i \in 1..Len(split) |-> Strip(split[i])]
         IN  IF Len(parts) # 2 THEN NotCoordinates
             ELSE LET possible_lat == ParseFloat(parts[1])
                      possible_lon == ParseFloat(parts[2])
                  IN  IF possible_lat.status = "raised" \/ possible_lon.status = "raised"
                      THEN NotCoordinates
                      ELSE IF LatLonValid(possible_lat.value, possible_lon.value)
                      THEN [is_coordinates |-> TRUE,
                            lat |-> possible_lat.value, lon |-> possible_lon.value]
                      ELSE NotCoordinates

AndWord == <<" ", "a", "n", "d", " ">>
AmpWord == <<" ", "&", " ">>
intersection_keywords == {AndWord, AmpWord, <<" ", "a", "t", " ">>, <<" ", "i", "n", "t", "e", "r", "s", "e", "c", "t", "i", "o", "n", " ">>}
is_potential_intersection(location) ==
    \E keyword \in intersection_keywords : Contains(ToLower(location), keyword)

\* the query text try_alternate_intersection_format hands to geocode_location
AlternateQuery(location) ==
    IF Contains(ToLower(location), AndWord)
    THEN Replace(ToLower(location), AndWord, AmpWord)
    ELSE IF Contains(ToLower(location), AmpWord)
    THEN Replace(ToLower(location), AmpWord, AndWord)
    ELSE location

\* a retry is due after the first request
RetryDue_AnyEmpty(results, flagged) == results = <<>>
RetryDue(results, flagged) == results = <<>> /\ flagged

Absent == <<"<absent>">>
Highway == <<"h", "i", "g", "h", "w", "a", "y">>
\* select_best_geocoding_result on a non-empty list: the index chosen
IsHighway(item) ==
    \/ item.type # Absent /\ Contains(ToLower(item.type), Highway)
    \/ item.class # Absent /\ item.class = Highway
select_best_geocoding_result_Top(data, is_intersection) == data[1]
select_best_geocoding_result(data, is_intersection) ==
    IF is_intersection /\ \E i \in 1..Len(data) : IsHighway(data[i])
    THEN data[CHOOSE i \in 1..Len(data) :
                  IsHighway(data[i]) /\ \A j \in 1..(i - 1) : ~IsHighway(data[j])]
    ELSE data[1]

\* the except clauses of location_to_coordinates, in order
ErrorPrefix == "Error: "
LocationHandlers_NoCatchAll == <<"Timeout", "RequestException", "ValueError", "IndexError">>
LocationHandlers == <<"Timeout", "RequestException", "ValueError", "IndexError", "Exception">>
\* an exception no clause catches leaves the call
Uncaught(exc) == <<"Traceback: ", exc>>
\* the string of the first clause that catches exc
ErrorString(exc, location) ==
    LET catching == {i \in 1..Len(LocationHandlers) : Catches(LocationHandlers[i], exc)}
    IN  IF catching = {} THEN Uncaught(exc)
        ELSE LET handler == LocationHandlers[CHOOSE i \in catching : \A j \in catching : i <= j]
             IN  IF handler = "Timeout"
                 THEN <<ErrorPrefix, "Geocoding API request timed out">>
                 ELSE IF handler = "RequestException"
                 THEN <<ErrorPrefix, "Network error when geocoding location: ", exc>>
                 ELSE IF handler = "ValueError"
                 THEN <<ErrorPrefix, "Invalid location format: ", exc>>
                 ELSE IF handler = "IndexError"
                 THEN <<ErrorPrefix, "Could not extract coordinates from location '">>
                          \o location \o <<"'">>
                 ELSE <<ErrorPrefix, exc>>
NotFound_Lowered(location) ==
    <<ErrorPrefix, "Location '">> \o ToLower(location) \o <<"' not found">>
NotFound(location) == <<ErrorPrefix, "Location '">> \o location \o <<"' not found">>
\* generate_overpass_url; the four numbers of the box are not computed
OverpassUrl == <<"https://overpass-api.de/api/map?bbox=", "{min_lon},{min_lat},{max_lon},{max_lat}">>

\* ------------------------------------------------------------- location inputs
CoordAlphabet == {"9", "0", ",", "."}
Fragments == {<<"A", "b">>, AndWord, AmpWord, <<" ", "A", "N", "D", " ">>, <<" ", "a", "t", " ">>}
NewYork == <<"4", "0", ".", "7", "1", "2", "8", ",", " ", "-", "7", "4", ".", "0", "0", "6", "0">>
OutOfRange == <<"0", ",", "2", "0", "0">>
FifthAve == <<"5", "t", "h", " ", "A", "v", "e", " ", "a", "n", "d", " ", "2", "3", "r", "d", " ", "S", "t", ",", " ", "N", "e", "w", " ", "Y", "o", "r", "k">>
LocationExamples == {NewYork, OutOfRange, FifthAve,
                     <<"n", "a", "n", ",", "0">>, <<"B", "o", "r", "o", "u", "g", "h", " ", "M", "a", "r", "k", "e", "t", ",", " ", "L", "o", "n", "d", "o", "n">>, <<" ", "-", "9", "0", " ", ",", "1", "8", "0", ".", "0">>}
Locations ==
    TextsUpTo(CoordAlphabet, MaxLocLen) \cup ConcatsUpTo(Fragments, MaxWords) \cup LocationExamples

Candidate(type, class, lat, lon) == [type |-> type, class |-> class, lat |-> lat, lon |-> lon]
Candidates ==
    {Candidate(<<"h", "o", "u", "s", "e">>, <<"b", "u", "i", "l", "d", "i", "n", "g">>, <<"5", "1", ".", "5">>, <<"-", "0", ".", "1">>),
     Candidate(<<"H", "i", "g", "h", "w", "a", "y", "_", "l", "i", "n", "k">>, Absent, <<"4", "0", ".", "7">>, <<"-", "7", "4">>),
     Candidate(Absent, Highway, <<"1">>, Absent),
     Candidate(Absent, Absent, <<"n", "/", "a">>, <<"-", "0", ".", "1">>)}
RECURSIVE CandidateLists(_)
CandidateLists(n) ==
    IF n = 0 THEN {<<>>}
    ELSE LET P == CandidateLists(n - 1)
         IN  P \cup {Append(l, c) : l \in {x \in P : Len(x) = n - 1}, c \in Candidates}
\* what one geocode_location call can end in: the candidates of the reply,
\* or the exception of requests.get, raise_for_status or response.json
GeocoderOutcomes ==
    {Ok(l) : l \in CandidateLists(MaxCandidates)}
        \cup {Raised(e) : e \in {"Timeout", "HTTPError", "ConnectionError", "JSONDecodeError"}}

\* ------------------------------------------------------------- run_rhino_compute
\* an HTTP response: its status code and its body, which response.json()
\* parses or not, into a dict or into another JSON value
HttpResponse(status_code, parses, is_dict, json) ==
    [status_code |-> status_code, parses |-> parses, is_dict |-> is_dict, json |-> json]

\* "values" in json_response: TypeError for a JSON number
HasValuesKey(response) ==
    IF ~response.is_dict THEN Raised("TypeError") ELSE Ok(response.json.has_values)

\* the try block of run_rhino_compute
ProcessResponse(response) ==
    IF ~response.parses THEN Raised("JSONDecodeError")
    ELSE IF response.status_code = 500 /\ HasValuesKey(response).status = "raised"
    THEN HasValuesKey(response)
    ELSE IF response.status_code = 500 /\ HasValuesKey(response).value
    THEN Ok(response)
    ELSE IF response.status_code # 200 THEN Raised("ValueError")
    ELSE Ok(response)

\* run_rhino_compute, given what requests.post ended in: an exception of
\* requests.post leaves the function as it is, every exception of the try
\* block leaves it as ValueError
run_rhino_compute(post) ==
    IF post.status = "raised" THEN post
    ELSE IF ProcessResponse(post.value).status = "raised" THEN Raised("ValueError")
    ELSE ProcessResponse(post.value)

\* ------------------------------------------------------------- compute responses
StatusCodes == {200, 404, 500}
ContextLeaf(branch) == Response(<<DataTreeEntry(OutputKey, [p \in {OutputPath} |-> branch])>>)
GoodResult == ContextLeaf(<<OutLeaf(Str(Payload))>>)
ComputeDicts ==
    {GoodResult, ContextLeaf(<<>>), ContextLeaf(<<OutLeaf(Str(<<"h">>))>>), NoValues}
ComputeBodies ==
    {[parses |-> FALSE, is_dict |-> FALSE, json |-> NoValues],
     [parses |-> TRUE, is_dict |-> FALSE, json |-> NoValues]}
        \cup {[parses |-> TRUE, is_dict |-> TRUE, json |-> d] : d \in ComputeDicts}
\* what requests.post can end in
PostOutcomes ==
    {Raised("ConnectionError"), Raised("Timeout")}
        \cup {Ok(HttpResponse(s, b.parses, b.is_dict, b.json)) : s \in StatusCodes, b \in ComputeBodies}

\* ------------------------------------------------------------- tool results
\* a tool returns a string or a dict with the key success; Escaped(exc) when
\* an exception leaves the tool function
StrResult(text) == [kind |-> "str", success |-> TRUE, text |-> text]
DictResult(success, text) == [kind |-> "dict", success |-> success, text |-> text]
Escaped(exc) == [kind |-> "raised", success |-> FALSE, text |-> <<exc>>]

\* ------------------------------------------------------------- save_3dm_file
\* the kinds in the order of the isinstance tests
KindOrder == <<"Curve", "Point", "Surface", "Mesh", "Brep">>
\* a value handed to save_3dm_file: the kinds it is an instance of and the
\* kinds whose Add method raises for it
Shape(kinds, fails) == [kinds |-> kinds, fails |-> fails]
AddOp(item, kind, ok) == [op |-> "Add", item |-> item, kind |-> kind, ok |-> ok]
WriteOp == [op |-> "Write", item |-> 0, kind |-> "File3dm", ok |-> TRUE]

\* the Add calls made for the value at position item, from the k-th test on:
\* continue follows a successful Add only
RECURSIVE AddsFor(_, _, _)
AddsFor(obj, item, k) ==
    IF k > Len(KindOrder) THEN <<>>
    ELSE IF KindOrder[k] \notin obj.kinds THEN AddsFor(obj, item, k + 1)
    ELSE IF KindOrder[k] \in obj.fails
    THEN <<AddOp(item, KindOrder[k], FALSE)>> \o AddsFor(obj, item, k + 1)
    ELSE <<AddOp(item, KindOrder[k], TRUE)>>

RECURSIVE LoopOps(_, _)
LoopOps(objs, item) ==
    IF item > Len(objs) THEN <<>>
    ELSE AddsFor(objs[item], item, 1) \o LoopOps(objs, item + 1)

\* the operations of save_3dm_file on the model, in order
save_3dm_file(objs) == LoopOps(objs, 1) \o <<WriteOp>>

Shapes ==
    {Shape({}, {}),
     Shape({"Curve"}, {}), Shape({"Curve"}, {"Curve"}),
     Shape({"Point"}, {}), Shape({"Surface"}, {}), Shape({"Mesh"}, {}), Shape({"Brep"}, {}),
     Shape({"Curve", "Surface"}, {}), Shape({"Curve", "Surface"}, {"Curve"}),
     Shape({"Mesh", "Brep"}, {"Mesh", "Brep"})}
RECURSIVE ShapesUpTo(_)
ShapesUpTo(n) ==
    IF n = 0 THEN {<<>>}
    ELSE LET P == ShapesUpTo(n - 1)
         IN  P \cup {Append(l, s) : l \in {x \in P : Len(x) = n - 1}, s \in Shapes}

\* ------------------------------------------------------------- state
VARIABLES
    call,       \* the operation that ran last
    param,      \* format_parameter: its arguments
    fmt,        \* format_parameter: what it returned or raised
    batch,      \* format_parameters: the items of its argument
    fmts,       \* format_parameters: what it returned or raised
    output,     \* the response handed to a decoder
    tree_path,  \* decode_gh_output: its tree_path argument
    dec,        \* decode_gh_output: what it returned or raised
    prs,        \* parse_result: what it returned or raised
    location,   \* location_to_coordinates: its location argument
    loc_pc,     \* location_to_coordinates: where the call stands
    is_coordinates, lat, lon,   \* the centre of the box and how it was found
    intersection_check,         \* the flag of is_potential_intersection
    requests,   \* the query texts handed to geocode_location, in order
    replies,    \* what each of these calls ended in
    geocode_results,            \* the candidates of the last reply
    selected_result,            \* what select_best_geocoding_result returned
    ret,        \* location_to_coordinates: the string it returned, Uncaught(exc)
                \* when an exception left it
    tool_in,    \* a tool: what its collaborators ended in
    rrc,        \* run_rhino_compute: what it returned or raised
    tool_ret,   \* a tool: what it returned
    compute_log,    \* the parameters of the calls of run_rhino_compute, in order
    written,    \* how many times the output file was opened for writing
    ops         \* save_3dm_file: the operations on the 3dm model, in order

codec_vars == <<param, fmt, batch, fmts, output, tree_path, dec, prs>>
loc_vars == <<location, loc_pc, is_coordinates, lat, lon, intersection_check,
              requests, replies, geocode_results, selected_result, ret>>
tool_vars == <<tool_in, rrc, tool_ret, compute_log, written, ops>>
vars == <<call, codec_vars, loc_vars, tool_vars>>

NoParam == [name |-> "", value |-> PyNone]
NoResult == [status |-> "none", exc |-> "none", value |-> PyNone]
NoOutput == NoValues

CodecInit ==
    /\ param = NoParam /\ fmt = NoResult
    /\ batch = <<>> /\ fmts = NoResult
    /\ output = NoOutput /\ tree_path = ""
    /\ dec = NoResult /\ prs = NoResult

LocInit ==
    /\ location = <<>> /\ loc_pc = "idle"
    /\ is_coordinates = FALSE /\ lat = PyNone /\ lon = PyNone
    /\ intersection_check = FALSE
    /\ requests = <<>> /\ replies = <<>>
    /\ geocode_results = <<>> /\ selected_result = PyNone /\ ret = <<>>

ToolInit ==
    /\ tool_in = PyNone /\ rrc = NoResult /\ tool_ret = NoResult
    /\ compute_log = <<>> /\ written = 0 /\ ops = <<>>

Init == call = "none" /\ CodecInit /\ LocInit /\ ToolInit

\* a call of format_parameter(param_name, value)
FormatParameter ==
    /\ call = "none"
    /\ \E param_name \in ParamNames, value \in ParamValues :
        /\ call' = "format_parameter"
        /\ param' = [name |-> param_name, value |-> value]
        /\ fmt' = format_parameter(param_name, value)
        /\ batch' = <<>> /\ fmts' = NoResult
        /\ output' = NoOutput /\ tree_path' = ""
        /\ dec' = NoResult /\ prs' = NoResult
        /\ UNCHANGED loc_vars
        /\ UNCHANGED tool_vars

\* a call of format_parameters(param_dict)
FormatParameters ==
    /\ call = "none"
    /\ \E items \in ParamDicts :
        /\ call' = "format_parameters"
        /\ batch' = items
        /\ fmts' = format_parameters(items)
        /\ param' = NoParam /\ fmt' = NoResult
        /\ output' = NoOutput /\ tree_path' = ""
        /\ dec' = NoResult /\ prs' = NoResult
        /\ UNCHANGED loc_vars
        /\ UNCHANGED tool_vars

\* the compute service answers with the leaf that format_parameter built
ComputeEcho ==
    /\ call = "format_parameter"
    /\ fmt.status = "ok"
    /\ call' = "compute_echo"
    /\ output' = EchoResponse(fmt.value)
    /\ tree_path' = DefaultTreePath
    /\ UNCHANGED <<param, fmt, batch, fmts, dec, prs>>
    /\ UNCHANGED loc_vars
    /\ UNCHANGED tool_vars

\* a response arrives from the compute service
Receive ==
    /\ call = "none"
    /\ \E o \in LeafResponses \cup BranchResponses \cup PayloadResponses :
        /\ call' = "receive"
        /\ output' = o
        /\ param' = NoParam /\ fmt' = NoResult
        /\ batch' = <<>> /\ fmts' = NoResult
        /\ tree_path' = ""
        /\ dec' = NoResult /\ prs' = NoResult
        /\ UNCHANGED loc_vars
        /\ UNCHANGED tool_vars

\* a call of decode_gh_output(output, tree_path)
DecodeGhOutput ==
    /\ call \in {"compute_echo", "receive"}
    /\ \E path \in (IF call = "compute_echo" THEN {tree_path} ELSE Paths) :
        /\ tree_path' = path
        /\ dec' = decode_gh_output(output, path)
    /\ call' = "decode_gh_output"
    /\ UNCHANGED <<param, fmt, batch, fmts, output, prs>>
    /\ UNCHANGED loc_vars
    /\ UNCHANGED tool_vars

\* a call of parse_result(result)
ParseResult ==
    /\ call = "receive"
    /\ output \in PayloadResponses
    /\ call' = "parse_result"
    /\ prs' = parse_result(output)
    /\ UNCHANGED <<param, fmt, batch, fmts, output, tree_path, dec>>
    /\ UNCHANGED loc_vars
    /\ UNCHANGED tool_vars

\* ------------------------------------------------------------- location_to_coordinates
\* the call starts: parse_direct_coordinates, and is_potential_intersection
\* when the text is no pair of coordinates
LocationToCoordinates ==
    /\ call = "none"
    /\ \E loc \in Locations :
        LET direct == parse_direct_coordinates(loc)
        IN  /\ call' = "location_to_coordinates"
            /\ location' = loc
            /\ is_coordinates' = direct.is_coordinates
            /\ lat' = direct.lat
            /\ lon' = direct.lon
            /\ intersection_check' = (~direct.is_coordinates /\ is_potential_intersection(loc))
            /\ loc_pc' = IF direct.is_coordinates THEN "bbox" ELSE "geocode"
            /\ UNCHANGED <<requests, replies, geocode_results, selected_result, ret>>
            /\ UNCHANGED codec_vars
            /\ UNCHANGED tool_vars

\* what follows a geocode_location call that ended in outcome
AfterGeocode(outcome, may_retry) ==
    IF outcome.status = "raised"
    THEN /\ ret' = ErrorString(outcome.exc, location)
         /\ loc_pc' = "done"
         /\ UNCHANGED geocode_results
    ELSE /\ geocode_results' = outcome.value
         /\ IF may_retry /\ RetryDue(outcome.value, intersection_check)
            THEN loc_pc' = "retry" /\ UNCHANGED ret
            ELSE IF outcome.value = <<>>
            THEN loc_pc' = "done" /\ ret' = NotFound(location)
            ELSE loc_pc' = "select" /\ UNCHANGED ret

\* geocode_location(location)
GeocodeLocation ==
    /\ loc_pc = "geocode"
    /\ \E outcome \in GeocoderOutcomes :
        /\ requests' = Append(requests, location)
        /\ replies' = Append(replies, outcome)
        /\ AfterGeocode(outcome, TRUE)
    /\ UNCHANGED <<call, location, is_coordinates, lat, lon, intersection_check,
                   selected_result>>
    /\ UNCHANGED codec_vars
    /\ UNCHANGED tool_vars

\* try_alternate_intersection_format(location)
TryAlternateIntersectionFormat ==
    /\ loc_pc = "retry"
    /\ \E outcome \in GeocoderOutcomes :
        /\ requests' = Append(requests, AlternateQuery(location))
        /\ replies' = Append(replies, outcome)
        /\ AfterGeocode(outcome, FALSE)
    /\ UNCHANGED <<call, location, is_coordinates, lat, lon, intersection_check,
                   selected_result>>
    /\ UNCHANGED codec_vars
    /\ UNCHANGED tool_vars

\* float(selected_result[key]): KeyError without the key
CoordinateOf(text) ==
    IF text = Absent THEN Raised("KeyError") ELSE ParseFloat(text)

\* select_best_geocoding_result and the two float() calls
SelectResult ==
    /\ loc_pc = "select"
    /\ selected_result' = select_best_geocoding_result(geocode_results, intersection_check)
    /\ LET la == CoordinateOf(selected_result'.lat)
           lo == CoordinateOf(selected_result'.lon)
       IN  IF la.status = "raised"
           THEN ret' = ErrorString(la.exc, location) /\ loc_pc' = "done" /\ UNCHANGED <<lat, lon>>
           ELSE IF lo.status = "raised"
           THEN ret' = ErrorString(lo.exc, location) /\ loc_pc' = "done" /\ UNCHANGED <<lat, lon>>
           ELSE lat' = la.value /\ lon' = lo.value /\ loc_pc' = "bbox" /\ UNCHANGED ret
    /\ UNCHANGED <<call, location, is_coordinates, intersection_check,
                   requests, replies, geocode_results>>
    /\ UNCHANGED codec_vars
    /\ UNCHANGED tool_vars

\* calculate_bounding_box and generate_overpass_url; math.cos raises
\* ValueError for an infinite latitude
BoundingBox ==
    /\ loc_pc = "bbox"
    /\ ret' = IF lat \in {Inf, NegInf} THEN ErrorString("ValueError", location) ELSE OverpassUrl
    /\ loc_pc' = "done"
    /\ UNCHANGED <<call, location, is_coordinates, lat, lon, intersection_check,
                   requests, replies, geocode_results, selected_result>>
    /\ UNCHANGED codec_vars
    /\ UNCHANGED tool_vars

\* ------------------------------------------------------------- server tools
\* run_grasshopper_definition: one call of run_rhino_compute inside try
RunGrasshopperDefinition ==
    /\ call = "none"
    /\ \E post \in PostOutcomes :
        /\ call' = "run_grasshopper_definition"
        /\ tool_in' = post
        /\ compute_log' = Append(compute_log, <<"parameters">>)
        /\ rrc' = run_rhino_compute(post)
        /\ tool_ret' = IF rrc'.status = "raised"
                       THEN StrResult(<<ErrorPrefix, rrc'.exc>>)
                       ELSE StrResult(<<"Grasshopper definition executed successfully. Result: ",
                                        "{result}">>)
        /\ UNCHANGED <<written, ops>>
        /\ UNCHANGED codec_vars
        /\ UNCHANGED loc_vars

\* run_context_generator starts: location_to_coordinates(location, ...)
ToolLocations == LocationExamples
RunContextGenerator ==
    /\ call = "none"
    /\ \E loc \in ToolLocations :
        LET direct == parse_direct_coordinates(loc)
        IN  /\ call' = "run_context_generator"
            /\ location' = loc
            /\ is_coordinates' = direct.is_coordinates
            /\ lat' = direct.lat
            /\ lon' = direct.lon
            /\ intersection_check' = (~direct.is_coordinates /\ is_potential_intersection(loc))
            /\ loc_pc' = IF direct.is_coordinates THEN "bbox" ELSE "geocode"
            /\ UNCHANGED <<requests, replies, geocode_results, selected_result, ret>>
            /\ UNCHANGED codec_vars
            /\ UNCHANGED tool_vars

\* what run_context_generator returns for the result of run_rhino_compute;
\* file_ok: open() and write() of the output file succeed
ProcessResult(result, file_ok) ==
    IF HasValuesKey(result).status = "raised"
    THEN DictResult(FALSE, <<ErrorPrefix, HasValuesKey(result).exc>>)
    ELSE IF ~HasValuesKey(result).value
    THEN DictResult(FALSE, <<"No values found in Rhino.Compute response">>)
    ELSE IF parse_result(result.json).status = "raised"
    THEN DictResult(FALSE, <<"Error processing response data: ", parse_result(result.json).exc>>)
    ELSE IF ~file_ok
    THEN DictResult(FALSE, <<"Error processing response data: ", "OSError">>)
    ELSE DictResult(TRUE, <<>>)

\* the file is opened when parse_result returned the bytes
OpensFile(result) ==
    /\ HasValuesKey(result).status = "ok"
    /\ HasValuesKey(result).value
    /\ parse_result(result.json).status = "ok"

\* run_context_generator after location_to_coordinates returned: the
\* parameter osmURL, run_rhino_compute, parse_result and the output file
ContextCompute ==
    /\ call = "run_context_generator"
    /\ loc_pc = "done"
    /\ tool_ret = NoResult
    /\ IF ret[1] = "Traceback: "
       THEN /\ tool_ret' = DictResult(FALSE, <<ErrorPrefix, ret[2]>>)
            /\ UNCHANGED <<tool_in, rrc, compute_log, written>>
       ELSE \E post \in PostOutcomes, file_ok \in BOOLEAN :
            /\ format_parameter("osmURL", Str(ret)).status = "ok"
            /\ compute_log' = Append(compute_log, ret)
            /\ rrc' = run_rhino_compute(post)
            /\ IF rrc'.status = "raised"
               THEN /\ tool_ret' = DictResult(FALSE, <<ErrorPrefix, rrc'.exc>>)
                    /\ tool_in' = [post |-> post, file |-> "unused"]
                    /\ UNCHANGED written
               ELSE /\ tool_ret' = ProcessResult(rrc'.value, file_ok)
                    /\ IF OpensFile(rrc'.value)
                       THEN /\ tool_in' = [post |-> post,
                                           file |-> IF file_ok THEN "written" ELSE "error"]
                            /\ written' = IF file_ok THEN written + 1 ELSE written
                       ELSE /\ tool_in' = [post |-> post, file |-> "unused"]
                            /\ UNCHANGED written
    /\ UNCHANGED <<call, ops>>
    /\ UNCHANGED codec_vars
    /\ UNCHANGED loc_vars

\* a call of save_3dm_file(objects, filename)
Save3dmFile ==
    /\ call = "none"
    /\ \E objs \in ShapesUpTo(MaxObjects) :
        /\ call' = "save_3dm_file"
        /\ tool_in' = objs
        /\ ops' = save_3dm_file(objs)
        /\ UNCHANGED <<rrc, tool_ret, compute_log, written>>
        /\ UNCHANGED codec_vars
        /\ UNCHANGED loc_vars

\* ------------------------------------------------------------- read_rhino_layers
\* what read_3dm_file finds at the path: no readable model, or a model with
\* some layers and some objects
Model(readable, n_layers, n_objects) ==
    [readable |-> readable, n_layers |-> n_layers, n_objects |-> n_objects]
Models ==
    {Model(FALSE, 0, 0)}
        \cup {Model(TRUE, l, n) : l \in 0..MaxObjects, n \in 0..MaxObjects}

\* format_layer_info: the listing, with the counts it prints
format_layer_info(model) ==
    IF model.n_layers = 0 THEN <<"No layers found in the file.">>
    ELSE <<"Found ", model.n_layers, " layers in '", "{file_name}", "Total objects in model: ",
           model.n_objects>>

LayersPath == "{0}"
\* what gh.EvaluateDefinition can end in
EvaluateOutcomes ==
    {Raised("ConnectionError"), Ok(NoValues)}
        \cup {Ok(Response(<<DataTreeEntry("RH_OUT:result", [p \in {q} |-> b])>>)) :
                q \in {LayersPath, DefaultTreePath},
                b \in {<<>>, <<OutLeaf(Str(<<GeomTok>>))>>, <<OutLeaf(Str(<<"1", "0">>))>>}}

\* the decoded values as save_3dm_file sees them: a geometry object is of
\* one kind, a number or a text of none
ShapeOf(value) == IF value = Geometry THEN Shape({"Brep"}, {}) ELSE Shape({}, {})

ReadError == "Error reading layers: "
\* gh.EvaluateDefinition followed by decode_gh_output(output, tree_path)
EvaluateAndDecode(evaluated, path) ==
    IF evaluated.status = "raised" THEN evaluated
    ELSE decode_gh_output(evaluated.value, path)

\* the body of read_rhino_layers after read_3dm_file returned the model;
\* geo_compute: what evaluating and decoding ends in
read_rhino_layers(model, geo_compute) ==
    IF ~model.readable
    THEN StrResult(<<ErrorPrefix, "Could not read file at '", "{path}",
                     "'. Make sure it is a valid Rhino 3dm file.">>)
    ELSE IF model.n_objects = 0 THEN StrResult(<<ReadError, "IndexError">>)
    ELSE IF geo_compute.status = "raised" THEN StrResult(<<ReadError, geo_compute.exc>>)
    ELSE StrResult(format_layer_info(model))

\* the operations on the saved model: save_3dm_file is reached when nothing
\* before it raised
SavedOps(model, geo_compute, before) ==
    IF model.readable /\ model.n_objects > 0 /\ geo_compute.status = "ok"
    THEN save_3dm_file([i \in 1..Len(geo_compute.value) |-> ShapeOf(geo_compute.value[i])])
    ELSE before

\* what read_rhino_layers returns, and the operations on the saved model
LayersOutcome(model, geo_compute, before) ==
    [ret |-> read_rhino_layers(model, geo_compute),
     ops |-> SavedOps(model, geo_compute, before)]

\* read_rhino_layers returns
ReturnLayers(model, evaluated, outcome) ==
    /\ call' = "read_rhino_layers"
    /\ tool_in' = [model |-> model, evaluated |-> evaluated]
    /\ tool_ret' = outcome.ret
    /\ ops' = outcome.ops
    /\ UNCHANGED <<rrc, compute_log, written>>
    /\ UNCHANGED codec_vars
    /\ UNCHANGED loc_vars

ReadRhinoLayers ==
    /\ call = "none"
    /\ \E model \in Models, evaluated \in EvaluateOutcomes :
        ReturnLayers(model, evaluated,
                     LayersOutcome(model, EvaluateAndDecode(evaluated, LayersPath), ops))

\* ------------------------------------------------------------- get_weather
\* what requests.get can end in: an exception, or a status code with a body
\* that is the weather JSON, JSON without its keys, or no JSON
WeatherOutcomes ==
    {Raised("Timeout"), Raised("ConnectionError")}
        \cup {Ok([status_code |-> s, body |-> b]) :
                s \in StatusCodes, b \in {"complete", "incomplete", "unparsable"}}

\* the try block of get_weather with an API key
WeatherBody(got) ==
    IF got.status = "raised" THEN got
    ELSE IF got.value.status_code = 200
    THEN IF got.value.body = "unparsable" THEN Raised("JSONDecodeError")
         ELSE IF got.value.body = "incomplete" THEN Raised("KeyError")
         ELSE Ok(<<"Weather in ", "{city}, {country}: {temp}">>)
    ELSE IF got.value.status_code = 404
    THEN Ok(<<ErrorPrefix, "City '", "{city}", "' in '", "{country}", "' not found">>)
    ELSE Ok(<<ErrorPrefix, "Unable to fetch weather data (HTTP ", got.value.status_code, ")">>)

WeatherHandlers == <<"Timeout", "RequestException", "Exception">>
get_weather(api_key, got) ==
    IF ~api_key THEN StrResult(<<"Mock Weather Data for ", "{city}, {country}">>)
    ELSE IF WeatherBody(got).status = "ok" THEN StrResult(WeatherBody(got).value)
    ELSE LET exc == WeatherBody(got).exc
             catching == {i \in 1..Len(WeatherHandlers) : Catches(WeatherHandlers[i], exc)}
         IN  IF catching = {} THEN Escaped(exc)
             ELSE LET handler == WeatherHandlers[CHOOSE i \in catching :
                                                     \A j \in catching : i <= j]
                  IN  IF handler = "Timeout"
                      THEN StrResult(<<ErrorPrefix, "Weather API request timed out">>)
                      ELSE IF handler = "RequestException"
                      THEN StrResult(<<ErrorPrefix,
                                       "Network error when fetching weather data: ", exc>>)
                      ELSE StrResult(<<ErrorPrefix, exc>>)

GetWeather ==
    /\ call = "none"
    /\ \E api_key \in BOOLEAN, got \in WeatherOutcomes :
        /\ call' = "get_weather"
        /\ tool_in' = [api_key |-> api_key, got |-> got]
        /\ tool_ret' = get_weather(api_key, got)
        /\ UNCHANGED <<rrc, compute_log, written, ops>>
        /\ UNCHANGED codec_vars
        /\ UNCHANGED loc_vars

\* ------------------------------------------------------------- run_simple_grasshopper_math
\* gh.EvaluateDefinition, decode_gh_output(output) and result[0] in one try
\* result: what evaluating and decoding ends in
run_simple_grasshopper_math(result) ==
    IF result.status = "raised" THEN StrResult(<<ErrorPrefix, result.exc>>)
    ELSE IF result.value = <<>> THEN StrResult(<<ErrorPrefix, "IndexError">>)
    ELSE StrResult(<<"Grasshopper definition executed successfully. Result: ",
                     result.value[1]>>)

RunSimpleGrasshopperMath ==
    /\ call = "none"
    /\ \E evaluated \in EvaluateOutcomes :
        /\ call' = "run_simple_grasshopper_math"
        /\ tool_in' = evaluated
        /\ tool_ret' = run_simple_grasshopper_math(EvaluateAndDecode(evaluated, DefaultTreePath))
        /\ UNCHANGED <<rrc, compute_log, written, ops>>
        /\ UNCHANGED codec_vars
        /\ UNCHANGED loc_vars

Next ==
    \/ GetWeather
    \/ RunSimpleGrasshopperMath
    \/ ReadRhinoLayers
    \/ Save3dmFile
    \/ RunContextGenerator
    \/ ContextCompute
    \/ RunGrasshopperDefinition
    \/ FormatParameter
    \/ FormatParameters
    \/ ComputeEcho
    \/ Receive
    \/ DecodeGhOutput
    \/ ParseResult
    \/ LocationToCoordinates
    \/ GeocodeLocation
    \/ TryAlternateIntersectionFormat
    \/ SelectResult
    \/ BoundingBox

Spec == Init /\ [][Next]_vars

\* ============================================================= claims
\* what format_parameter is claimed to produce for a value: text -> string,
\* boolean -> boolean, integer -> integer, a real with no fraction -> the
\* integer it denotes, any other real -> real, anything else -> its text
ClaimedLeaf(value) ==
    CASE value.kind = "str" -> Leaf("System.String", value)
      [] value.kind = "bool" -> Leaf("System.Boolean", value)
      [] value.kind = "int" -> Leaf("System.Int32", value)
      [] value.kind = "float" /\ value.s = <<>> /\ value.e = 0 -> Leaf("System.Int32", IntV(value.n))
      [] value.kind = "float" /\ ~(value.s = <<>> /\ value.e = 0) -> Leaf("System.Double", value)
      [] OTHER -> Leaf("System.String", Str(PyStr(value)))

\* C1: for every name and every value format_parameter returns an entry that
\* carries the name and one branch, "{0}", of one leaf, whose type and data
\* follow the precedence text, boolean, integer, integral real, real, other.
C1_TypePrecedence ==
    call = "format_parameter" =>
        /\ fmt.status = "ok"
        /\ fmt.value.ParamName = param.name
        /\ DOMAIN fmt.value.InnerTree = {"{0}"}
        /\ fmt.value.InnerTree["{0}"] = <<ClaimedLeaf(param.value)>>

\* C2: format_parameter and format_parameters never raise, whatever the
\* value, infinities and nan included.
C2_NeverRaises ==
    /\ call = "format_parameter" => fmt.status = "ok"
    /\ call = "format_parameters" => fmts.status = "ok"

\* a round trip has run: a parameter was encoded, carried back in a response
\* leaf and decoded
RoundTripDone == call = "decode_gh_output" /\ param # NoParam
TypeClass(v) == IF v.kind \in {"str", "bool", "int", "float"} THEN v.kind ELSE "other"
\* the decoder returned one value, equal to the parameter and of its class
Reproduced ==
    /\ dec.status = "ok"
    /\ Len(dec.value) = 1
    /\ TypeClass(dec.value[1]) = TypeClass(param.value)
    /\ dec.value[1] = param.value

\* C3 as stated: every string, boolean, integer and real comes back from the
\* round trip equal and of the same type class.
C3_RoundTrip ==
    RoundTripDone /\ TypeClass(param.value) # "other" => Reproduced

\* the scalars the round trip keeps: integers, reals with a fraction whose
\* text has a decimal point, and text that is neither a number for
\* int()/float() nor the JSON of a geometry object
RoundTripSafe(v) ==
    \/ v.kind = "int"
    \/ /\ IsFinite(v) /\ v.e > 0
       /\ HasChar(FloatRepr(v.n, v.e), ".")
    \/ /\ v.kind = "str"
       /\ Strip(v.s) # <<GeomTok>>
       /\ (IF HasChar(v.s, ".") THEN ParseFloat(v.s) ELSE ParseInt(v.s)).status = "raised"

\* C3 amended: the round trip reproduces value and type class of every
\* integer, of every real with a fraction whose text has a decimal point, and
\* of every text that is not numeric and not geometry JSON.
C3_RoundTripAmended ==
    RoundTripDone /\ RoundTripSafe(param.value) => Reproduced

C3_Witness ==
    /\ RoundTripDone
    /\ param.value = Real(5, 1)
    /\ output.values[1].InnerTree[DefaultTreePath][1].data = Str(<<"0", ".", "5">>)
    /\ Reproduced

\* the entries of a response that hold a branch at a path, in order
EntriesWithPath(o, path) ==
    {i \in 1..Len(o.values) : path \in DOMAIN o.values[i].InnerTree}
FirstWithPath(o, path) ==
    CHOOSE i \in EntriesWithPath(o, path) : \A j \in EntriesWithPath(o, path) : i <= j

\* C4: decode_gh_output decodes the branch of the first entry, in sequence
\* order, whose branch map holds the path, skipping earlier entries without it.
C4_FirstEntryWithPath ==
    call = "decode_gh_output" /\ EntriesWithPath(output, tree_path) # {} =>
        dec = DecodeBranch(output.values[FirstWithPath(output, tree_path)].InnerTree[tree_path])

\* the entries named OutputKey that hold a branch at OutputPath
KeyEntries(o) ==
    {i \in EntriesWithPath(o, OutputPath) : o.values[i].ParamName = OutputKey}

\* C5: each decoder ends in an error when no entry matches the requested
\* key/path, and when the matched branch is present but empty.
C5_ErrorWhenNoMatchOrEmpty ==
    /\ (call = "decode_gh_output" /\ EntriesWithPath(output, tree_path) = {})
           => dec.status = "raised"
    /\ (/\ call = "decode_gh_output"
        /\ EntriesWithPath(output, tree_path) # {}
        /\ output.values[FirstWithPath(output, tree_path)].InnerTree[tree_path] = <<>>)
           => dec.status = "raised"
    /\ (call = "parse_result" /\ KeyEntries(output) = {}) => prs.status = "raised"
    /\ (/\ call = "parse_result"
        /\ KeyEntries(output) # {}
        /\ \A i \in KeyEntries(output) : output.values[i].InnerTree[OutputPath] = <<>>)
           => prs.status = "raised"

\* the value the chain geometry -> number -> text gives for unquoted data
ChainValue(u) ==
    IF u.kind = "str" /\ Strip(u.s) = <<GeomTok>> THEN Geometry
    ELSE IF u.kind = "str" /\ HasChar(u.s, ".") /\ ParseFloat(u.s).status = "ok"
    THEN ParseFloat(u.s).value
    ELSE IF u.kind = "str" /\ ~HasChar(u.s, ".") /\ ParseInt(u.s).status = "ok"
    THEN ParseInt(u.s).value
    ELSE u

\* the branch decode_gh_output reads exists and every leaf of it has data
BranchSelected ==
    /\ call = "decode_gh_output"
    /\ output.has_values /\ Len(output.values) >= 1
    /\ tree_path \in DOMAIN output.values[1].InnerTree
    /\ \A i \in 1..Len(output.values[1].InnerTree[tree_path]) :
           output.values[1].InnerTree[tree_path][i].data # Missing
SelectedBranch == output.values[1].InnerTree[tree_path]

\* C6: for a selected branch whose leaves all carry data, decode_gh_output
\* returns one value per leaf, in leaf order, each the result of the chain
\* geometry -> number -> text on that leaf alone; no failure of a step, also
\* for data that is not text, propagates.
C6_LeafwiseDecoding ==
    BranchSelected =>
        /\ dec.status = "ok"
        /\ Len(dec.value) = Len(SelectedBranch)
        /\ \A i \in 1..Len(SelectedBranch) :
               dec.value[i] = ChainValue(StripQuotes(SelectedBranch[i].data))

C6_Witness ==
    /\ BranchSelected
    /\ Len(SelectedBranch) = 2
    /\ SelectedBranch[1].data = IntV(10)
    /\ SelectedBranch[2].data = Str(<<GeomTok>>)
    /\ dec = Ok(<<IntV(10), Geometry>>)

\* the unquoting C7 describes: one leading and one trailing double quote go
\* when the data is text of at least two characters wrapped in them
ClaimedUnquote(d) ==
    IF d.kind = "str" /\ Len(d.s) >= 2 /\ d.s[1] = Q /\ d.s[Len(d.s)] = Q
    THEN Str(SubSeq(d.s, 2, Len(d.s) - 1))
    ELSE d

\* C7: exactly one layer of quotes is removed, from text of at least two
\* characters wrapped in a pair of double quotes, and all other data is left
\* as it is before the chain decodes it.
C7_StripsOneLayer ==
    BranchSelected =>
        /\ dec.status = "ok"
        /\ \A i \in 1..Len(SelectedBranch) :
               dec.value[i] = ChainValue(ClaimedUnquote(SelectedBranch[i].data))

\* what C8 calls direct coordinates: the text splits on commas into exactly
\* two parts, both read as reals, the first within [-90, 90] and the second
\* within [-180, 180]
CommaCount(s) == Cardinality({i \in 1..Len(s) : s[i] = ","})
LatText(s) == SubSeq(s, 1, IndexOf(s, ",") - 1)
LonText(s) == SubSeq(s, IndexOf(s, ",") + 1, Len(s))
ClaimedDirect(s) ==
    /\ CommaCount(s) = 1
    /\ ParseFloat(LatText(s)).status = "ok"
    /\ ParseFloat(LonText(s)).status = "ok"
    /\ InRange(ParseFloat(LatText(s)).value, 90)
    /\ InRange(ParseFloat(LonText(s)).value, 180)

\* C8: for direct coordinates the geocoder is never called and the parsed
\* pair is the centre; for every other text direct parsing fails and the
\* call goes on to a geocoding request.
C8_DirectCoordinatesSkipGeocoding ==
    call = "location_to_coordinates" =>
        IF ClaimedDirect(location)
        THEN /\ requests = <<>>
             /\ is_coordinates
             /\ loc_pc \in {"bbox", "done"}
             /\ lat = ParseFloat(LatText(location)).value
             /\ lon = ParseFloat(LonText(location)).value
        ELSE /\ ~is_coordinates
             /\ loc_pc = "geocode" \/ Len(requests) >= 1

C8_Witness ==
    /\ call = "location_to_coordinates"
    /\ location = NewYork
    /\ loc_pc = "done"
    /\ requests = <<>>
    /\ lat = Real(407128, 4) /\ lon = Real(-74006, 3)
    /\ ret = OverpassUrl

ZeroCandidates(reply) == reply.status = "ok" /\ reply.value = <<>>

\* C9: a second geocoding request is issued if and only if the first one
\* returned zero candidates and the input is flagged as an intersection;
\* there are at most two requests, and none follows a request that returned
\* a candidate or raised.
C9_RetryOnlyForEmptyIntersection ==
    call = "location_to_coordinates" =>
        /\ Len(requests) <= 2
        /\ Len(replies) = Len(requests)
        /\ \A i \in 1..(Len(requests) - 1) : ZeroCandidates(replies[i])
        /\ Len(requests) = 2 => is_potential_intersection(location)
        /\ (/\ loc_pc \in {"select", "bbox", "done"}
            /\ Len(requests) >= 1
            /\ ZeroCandidates(replies[1])
            /\ is_potential_intersection(location)) => Len(requests) = 2

C9_Witness ==
    /\ call = "location_to_coordinates"
    /\ location = FifthAve
    /\ loc_pc = "done"
    /\ Len(requests) = 2
    /\ ZeroCandidates(replies[1])
    /\ ~ZeroCandidates(replies[2])

\* the rewrite C10 describes, applied to the text as given
ClaimedRewrite(s) ==
    IF Contains(s, AndWord) THEN Replace(s, AndWord, AmpWord)
    ELSE IF Contains(s, AmpWord) THEN Replace(s, AmpWord, AndWord)
    ELSE s

\* C10: the query of the retry is the original input with " and " rewritten
\* to " & ", or " & " to " and ", and differs from the first query in nothing
\* else.
C10_RetryQueryIsRewrite ==
    (call = "location_to_coordinates" /\ Len(requests) = 2) =>
        /\ requests[1] = location
        /\ requests[2] = ClaimedRewrite(location)

LastReply == replies[Len(replies)]

\* C11: when the last geocoding request of the call returns no candidate
\* and no retry is due, the call ends there with a string that starts with
\* the error prefix and contains the input text as given; nothing was
\* selected, no centre was set, and nothing follows the end of the call.
C11_NotFoundNamesInput ==
    [][/\ loc_pc = "done" => UNCHANGED loc_vars
       /\ (/\ loc_pc \in {"geocode", "retry"}
           /\ loc_pc' # "retry"
           /\ ZeroCandidates(replies'[Len(replies')]))
          => /\ loc_pc' = "done"
             /\ ret'[1] = ErrorPrefix
             /\ Contains(ret', location)
             /\ ret'[Len(ret')] = "' not found"
             /\ selected_result' = PyNone
             /\ lat' = PyNone /\ lon' = PyNone]_vars

C11_Witness ==
    /\ call = "location_to_coordinates"
    /\ location = FifthAve
    /\ loc_pc = "done"
    /\ Len(requests) = 2
    /\ ZeroCandidates(LastReply)
    /\ ret = <<ErrorPrefix, "Location '">> \o FifthAve \o <<"' not found">>
    /\ selected_result = PyNone

\* a candidate's type or class denotes a highway
DenotesHighway(item) ==
    \/ item.type # Absent /\ Contains(ToLower(item.type), Highway)
    \/ item.class = Highway

\* a selection was made
Selected == loc_pc \in {"bbox", "done"} /\ selected_result # PyNone

\* C12: the candidate selected from a non-empty list is a member of the list:
\* for a flagged input the first one, in list order, that denotes a highway,
\* and the first of the list when none does or the input is not flagged.
C12_SelectsFirstHighwayOrFirst ==
    Selected =>
        /\ geocode_results # <<>>
        /\ \E i \in 1..Len(geocode_results) : selected_result = geocode_results[i]
        /\ IF /\ is_potential_intersection(location)
              /\ \E i \in 1..Len(geocode_results) : DenotesHighway(geocode_results[i])
           THEN \E i \in 1..Len(geocode_results) :
                    /\ selected_result = geocode_results[i]
                    /\ DenotesHighway(geocode_results[i])
                    /\ \A j \in 1..(i - 1) : ~DenotesHighway(geocode_results[j])
           ELSE selected_result = geocode_results[1]

C12_Witness ==
    /\ Selected
    /\ location = FifthAve
    /\ Len(geocode_results) = 2
    /\ ~DenotesHighway(geocode_results[1])
    /\ selected_result = geocode_results[2]

\* the failure a finished call of location_to_coordinates met
FailureKind ==
    IF replies # <<>> /\ LastReply.status = "raised"
    THEN IF LastReply.exc = "Timeout" THEN "timeout" ELSE "transport"
    ELSE IF replies # <<>> /\ ZeroCandidates(LastReply) THEN "empty"
    ELSE IF /\ selected_result # PyNone
            /\ \/ /\ selected_result.lat # Absent
                  /\ ParseFloat(selected_result.lat).status = "raised"
               \/ /\ selected_result.lat # Absent /\ selected_result.lon # Absent
                  /\ ParseFloat(selected_result.lon).status = "raised"
    THEN "coordinate"
    ELSE "none"

\* what an error string says
StringKind(s) ==
    IF Len(s) < 2 THEN "none"
    ELSE IF s[2] = "Geocoding API request timed out" THEN "timeout"
    ELSE IF s[2] = "Network error when geocoding location: " THEN "transport"
    ELSE IF s[2] = "Invalid location format: " THEN "coordinate"
    ELSE IF s[2] = "Location '" THEN "empty"
    ELSE "none"

\* C13: a finished call of location_to_coordinates has returned a
\* bounding-box URL or a string that starts with "Error: ", never raised; and
\* a timeout, another transport error, a coordinate-parsing error and an empty
\* final result each give the error string of their own kind, so that no two
\* kinds share a string.
C13_UrlOrDistinctError ==
    (call = "location_to_coordinates" /\ loc_pc = "done") =>
        /\ ret # <<>>
        /\ ret[1] \in {"https://overpass-api.de/api/map?bbox=", "Error: "}
        /\ FailureKind # "none" => ret[1] = "Error: " /\ StringKind(ret) = FailureKind

C13_Witness ==
    /\ call = "location_to_coordinates"
    /\ loc_pc = "done"
    /\ FailureKind = "coordinate"
    /\ ret = <<"Error: ", "Invalid location format: ", "ValueError">>

\* run_rhino_compute received a response
Responded == call = "run_grasshopper_definition" /\ tool_in.status = "ok"
\* the body of the response is a well-formed result payload
CarriesPayload(response) == response.parses /\ response.is_dict /\ response.json.has_values

\* C14: whatever the status code, a response whose body is a result payload
\* is returned as it is; run_rhino_compute raises only for a body that does
\* not parse and for a failure status without a result payload.
C14_PayloadAcceptedAtAnyStatus ==
    Responded =>
        /\ CarriesPayload(tool_in.value) => rrc = Ok(tool_in.value)
        /\ rrc.status = "raised" =>
               \/ ~tool_in.value.parses
               \/ tool_in.value.status_code # 200 /\ ~CarriesPayload(tool_in.value)

\* C18: when location_to_coordinates returned an error string,
\* run_context_generator issues no request through run_rhino_compute, writes
\* no file and returns a result with success = false.
C18_NoComputeAfterLocationError ==
    (call = "run_context_generator" /\ loc_pc = "done" /\ ret[1] = "Error: ") =>
        /\ compute_log = <<>>
        /\ written = 0
        /\ tool_ret # NoResult => tool_ret.kind = "dict" /\ ~tool_ret.success

\* the operations of save_3dm_file that concern the value at a position
OpsOf(item) == SelectSeq(ops, LAMBDA o : o.op = "Add" /\ o.item = item)
\* the earliest kind, in the fixed order, that a value satisfies
EarliestKind(obj) ==
    KindOrder[CHOOSE k \in 1..Len(KindOrder) :
                  /\ KindOrder[k] \in obj.kinds
                  /\ \A j \in 1..(k - 1) : KindOrder[j] \notin obj.kinds]

C17_ListingWheneverFileReads ==
    call = "read_rhino_layers" =>
        /\ tool_in.model.readable =>
               /\ tool_ret.kind = "str"
               /\ tool_ret.text[1] \in {"No layers found in the file.", "Found "}
        /\ tool_ret.text[1] \in {"Error: ", "Error reading layers: "} => ~tool_in.model.readable

\* a tool call that has returned
ToolDone ==
    /\ call \in {"get_weather", "run_grasshopper_definition", "run_simple_grasshopper_math",
                 "run_context_generator", "read_rhino_layers"}
    /\ tool_ret # NoResult

\* an error string, or a dict with success = false
FailureShaped(r) ==
    \/ r.kind = "str" /\ r.text[1] \in {"Error: ", "Error reading layers: "}
    \/ r.kind = "dict" /\ ~r.success

\* a collaborator of the finished tool call failed: an HTTP error or timeout,
\* a compute error, a response that cannot be decoded, a file error
CollaboratorFailed ==
    \/ /\ call = "get_weather" /\ tool_in.api_key
       /\ \/ tool_in.got.status = "raised"
          \/ tool_in.got.value.status_code # 200
          \/ tool_in.got.value.body # "complete"
    \/ /\ call = "run_grasshopper_definition"
       /\ \/ tool_in.status = "raised"
          \/ ~tool_in.value.parses
          \/ tool_in.value.status_code # 200 /\ ~CarriesPayload(tool_in.value)
    \/ /\ call = "run_simple_grasshopper_math"
       /\ \/ tool_in.status = "raised"
          \/ ~tool_in.value.has_values
    \/ /\ call = "run_context_generator"
       /\ \/ FailureKind \in {"timeout", "transport"}
          \/ tool_in.post.status = "raised"
          \/ ~tool_in.post.value.parses
          \/ tool_in.file = "error"
    \/ /\ call = "read_rhino_layers"
       /\ \/ ~tool_in.model.readable
          \/ tool_in.model.n_objects > 0 /\ tool_in.evaluated.status = "raised"

\* C15: every tool call returns a value and no exception leaves it; when a
\* collaborator failed the value is an error string or a dict with
\* success = false.  location_to_coordinates_tool returns what
\* location_to_coordinates returns.
C15_ToolsReturnFailureValues ==
    /\ ToolDone =>
           /\ tool_ret.kind \in {"str", "dict"}
           /\ CollaboratorFailed => FailureShaped(tool_ret)
    /\ (call = "location_to_coordinates" /\ loc_pc = "done") =>
           /\ ret[1] # "Traceback: "
           /\ FailureKind # "none" => ret[1] = "Error: "

====
